---- MODULE Spec2Model ----
(***************************************************************************)
(* A model of the VoiceInput class (src/VoiceInput.js): one instance, the  *)
(* calls made on it, and the browser tasks it registers (getUserMedia      *)
(* settling, the 100 ms silence-check interval, the 1500 ms silence timer, *)
(* the recorder's stop event, the HTTP response).  Every action is one     *)
(* run-to-completion task of the event loop.                               *)
(*                                                                         *)
(* A capture session is one completed #startRecording: it owns a           *)
(* MediaRecorder and the closure variables isSilent, silenceTimer,         *)
(* silenceDetectionInterval.  Sessions are numbered in creation order.     *)
(* The text of the 200 response to session s's audio is Text(s).           *)
(***************************************************************************)
EXTENDS Integers, Sequences, FiniteSets, TLC

\* ---- bounds of the model
MaxSessions == 2
MaxPending == 2
MaxStray == 1

\* ---- constants of the program
SilenceThreshold == 10
SilenceDelay == 1500
CheckPeriod == 100
NoTimer == -1

Sessions == 1..MaxSessions
Levels == {SilenceThreshold - 1, SilenceThreshold}
Outcomes == {"ok200", "other2xx", "failed"}

\* the constructor's language and endpoint arguments and their defaults (81-82)
DefaultLanguage == "ja"
Languages == {"ja", "en"}
DefaultEndpoint == "http://139.59.254.243:3000/api/transcribe/whisperapi"
Endpoints == {DefaultEndpoint, "https://example.org/transcribe"}

\* e.data.size of the recorder's dataavailable event: nothing captured, or something
ChunkSizes == {0, 1}

\* ---- values
Undefined == [kind |-> "undefined", of |-> 0]
Null == [kind |-> "null", of |-> 0]
Text(s) == [kind |-> "text", of |-> s]
LoadingText == [kind |-> "loading", of |-> 0]
InitialValue == [kind |-> "initial", of |-> 0]

\* the data of the dataavailable event of session s's recorder
Chunk(s) == s

\* this.#formData before the first submission, and no request sent yet
NoFormData == [file |-> <<>>, language |-> ""]
NoRequest == [session |-> 0, endpoint |-> "", data |-> NoFormData]

VARIABLES
  endpoint,              \* this.#endpoint
  language,              \* this.#language
  formData,              \* this.#formData: [file, language]
  audioChunks,           \* the audioChunks array of each session's closure
  request,               \* the last axios.post issued: [session, endpoint, data]
  recorder,              \* this.#recorder: 0 undefined, else the session whose MediaRecorder it is
  returnText,            \* this.#returnText
  textTranscribed,       \* this.#textTranscribed
  resolveTranscription,  \* this.#resolveTranscription / #rejectTranscription: 0 undefined,
                         \* else the session whose starting call created the promise
  outputInputField,      \* [present, value, disabled]; present = FALSE is the '' default
  pendingMic,            \* [BOOLEAN -> Nat]: calls awaiting getUserMedia, by their returnText argument
  nSessions,             \* recorders created so far
  recState,              \* MediaRecorder.state of each session's recorder
  onstop,                \* the recorder's stop event is queued
  silenceDetectionInterval, \* the setInterval of the session is active
  isSilent,              \* closure flag of the session
  silenceTimer,          \* remaining ms of the session's setTimeout, NoTimer when none is pending
  submission,            \* "none" | "inflight" | "ok200" | "other2xx" | "failed"
  isOutputFieldAvailable,\* the const of the session's transcribe() call
  promiseState,          \* promise returned by the call that started the session:
                         \* "none" | "pending" | "resolved" | "rejected"
  promiseValue,          \* the value it was resolved with
  events,                \* the notifications emitted for each session, in order
  strayStopped,          \* 'recordingStopped' emitted when nothing was recording (saturating)
  obs                    \* observations of the run the properties are stated on

vars == <<endpoint, language, formData, audioChunks, request, recorder, returnText, textTranscribed, resolveTranscription, outputInputField,
          pendingMic, nSessions, recState, onstop, silenceDetectionInterval,
          isSilent, silenceTimer, submission, isOutputFieldAvailable, promiseState,
          promiseValue, events, strayStopped, obs>>

\* obs fields:
\*   posts[s]         POSTs issued for session s
\*   textWrites[s]    assignments of a response text to the output field's value for s
\*   valueBefore[s]   the output field's value when s's transcribe() began
\*   errorTo[s]       where the error of s's submission went: "none", "promise" (the reject
\*                    function was called), "unhandled" (thrown where nothing awaits it)
\*   startedWhile[s]  #isRecording() at the moment 'recordingStarted' was emitted for s
\*   afterStart[s]    #isRecording() when s's start step completed
\*   expired[s]       s's silence timer has expired (its callback ran)
\*   autoStopped[s]   the session the last expiry of s's silence timer stopped (0: none)
\*   idleStop         the last #stopRecording that ran with nothing recording
\*   returned[s]      the value the call that stopped s resolved with (113)
\*   returnedWhile[s] s's submission when that call completed ("nocall": no call stopped s)
\*   calledWith[s]    this.#returnText as s's transcribe() read it (274)
\*   denied           how the last start call whose getUserMedia was rejected ended
Obs0 ==
  [posts |-> [s \in Sessions |-> 0],
   textWrites |-> [s \in Sessions |-> 0],
   valueBefore |-> [s \in Sessions |-> Undefined],
   errorTo |-> [s \in Sessions |-> "none"],
   startedWhile |-> [s \in Sessions |-> FALSE],
   afterStart |-> [s \in Sessions |-> FALSE],
   expired |-> [s \in Sessions |-> FALSE],
   autoStopped |-> [s \in Sessions |-> 0],
   idleStop |-> [outcome |-> "none", returnText |-> FALSE],
   returned |-> [s \in Sessions |-> Undefined],
   returnedWhile |-> [s \in Sessions |-> "nocall"],
   calledWith |-> [s \in Sessions |-> FALSE],
   denied |-> "none"]

\* the state after new VoiceInput(outputInputField, lang, url); present = FALSE when the
\* first argument is left out
Constructed(present, lang, url) ==
  /\ endpoint = url
  /\ language = lang
  /\ formData = NoFormData
  /\ audioChunks = [s \in Sessions |-> <<>>]
  /\ request = NoRequest
  /\ recorder = 0
  /\ returnText = FALSE
  /\ textTranscribed = Undefined
  /\ resolveTranscription = 0
  /\ outputInputField = [present |-> present, value |-> InitialValue, disabled |-> FALSE]
  /\ pendingMic = [b \in BOOLEAN |-> 0]
  /\ nSessions = 0
  /\ recState = [s \in Sessions |-> "inactive"]
  /\ onstop = [s \in Sessions |-> FALSE]
  /\ silenceDetectionInterval = [s \in Sessions |-> FALSE]
  /\ isSilent = [s \in Sessions |-> FALSE]
  /\ silenceTimer = [s \in Sessions |-> NoTimer]
  /\ submission = [s \in Sessions |-> "none"]
  /\ isOutputFieldAvailable = [s \in Sessions |-> FALSE]
  /\ promiseState = [s \in Sessions |-> "none"]
  /\ promiseValue = [s \in Sessions |-> Undefined]
  /\ events = [s \in Sessions |-> <<>>]
  /\ strayStopped = 0
  /\ obs = Obs0

\* new VoiceInput() or new VoiceInput(element): language and endpoint are the defaults
Init == \E present \in BOOLEAN : Constructed(present, DefaultLanguage, DefaultEndpoint)

\* any arguments
InitAnyArguments ==
  \E present \in BOOLEAN, lang \in Languages, url \in Endpoints : Constructed(present, lang, url)

\* ---- helpers

\* #isRecording(), evaluated on a recorder handle and the recorders' states
isRecordingIn(rec, states) == rec # 0 /\ states[rec] = "recording"

isRecording == isRecordingIn(recorder, recState)

\* emit(name) for a notification that belongs to session s
Emit(ev, s, name) == [ev EXCEPT ![s] = Append(@, name)]

\* a settled promise ignores later resolve/reject calls
Settle(st, p, to) == IF st[p] = "pending" THEN [st EXCEPT ![p] = to] ELSE st

SettleValue(st, vals, p, v) == IF st[p] = "pending" THEN [vals EXCEPT ![p] = v] ELSE vals

Saturate(n) == IF n < MaxStray THEN n + 1 ELSE n

\* ---- #stopRecording (src/VoiceInput.js 215-240)

\* line 217 without the test of the recorder's state
CanStopAnyRecorder == recorder # 0

\* the guard of line 217
CanStop == recorder # 0 /\ recState[recorder] = "recording"

\* line 232 left out
EmitNoRecordingStopped(ev, s) == ev

\* line 232, reached from the recording branch: the notification of the stopped session
EmitRecordingStopped(ev, s) == Emit(ev, s, "recordingStopped")

\* rt is this.#returnText as the body reads it, o the observations so far
stopRecording(rt, o) ==
  IF CanStop
  THEN \* 218-221: MediaRecorder.stop() inactivates the recorder and queues its stop event
       /\ recState' = [recState EXCEPT ![recorder] = "inactive"]
       /\ onstop' = [onstop EXCEPT ![recorder] = TRUE]
       /\ events' = EmitRecordingStopped(events, recorder)
       /\ obs' = o
       /\ UNCHANGED <<promiseState, promiseValue, strayStopped>>
  ELSE IF rt
  THEN IF resolveTranscription # 0
       THEN \* 223: resolve(null), then 232
            /\ promiseState' = Settle(promiseState, resolveTranscription, "resolved")
            /\ promiseValue' = SettleValue(promiseState, promiseValue, resolveTranscription, Null)
            /\ strayStopped' = Saturate(strayStopped)
            /\ obs' = [o EXCEPT !.idleStop = [outcome |-> "resolved", returnText |-> rt]]
            /\ UNCHANGED <<recState, onstop, events>>
       ELSE \* 223 calls undefined: TypeError, caught at 233; 235 calls undefined again
            /\ obs' = [o EXCEPT !.idleStop = [outcome |-> "typeError", returnText |-> rt]]
            /\ UNCHANGED <<recState, onstop, events, promiseState, promiseValue, strayStopped>>
  ELSE \* 225 throws, 237 rethrows
       /\ obs' = [o EXCEPT !.idleStop = [outcome |-> "error", returnText |-> rt]]
       /\ UNCHANGED <<recState, onstop, events, promiseState, promiseValue, strayStopped>>

\* ---- startOrStopTranscription (107-125)

\* the call finds nothing recording: it awaits getUserMedia (115, 138)
CallStart(rt) ==
  /\ ~isRecording
  /\ nSessions + pendingMic[TRUE] + pendingMic[FALSE] < MaxSessions
  /\ pendingMic[TRUE] + pendingMic[FALSE] < MaxPending
  /\ returnText' = rt
  /\ pendingMic' = [pendingMic EXCEPT ![rt] = @ + 1]
  /\ UNCHANGED <<endpoint, language, formData, audioChunks, request>>
  /\ UNCHANGED <<obs, recorder, textTranscribed, resolveTranscription, outputInputField, nSessions,
                 recState, onstop, silenceDetectionInterval, isSilent, silenceTimer,
                 submission, isOutputFieldAvailable, promiseState, promiseValue, events,
                 strayStopped>>

\* 113: the value the stopping call resolves with.  #stopRecording has no await that
\* suspends it on the recording branch, so the call resumes in a microtask of the same
\* task, before the stop event of the recorder is dispatched.
ReturnedText == textTranscribed

\* the call finds the recorder recording: 112-113
CallStop(rt) ==
  /\ isRecording
  /\ returnText' = rt
  /\ stopRecording(rt, [obs EXCEPT !.returned[recorder] = ReturnedText,
                                   !.returnedWhile[recorder] = submission[recorder]])
  /\ UNCHANGED <<endpoint, language, formData, audioChunks, request>>
  /\ UNCHANGED <<recorder, textTranscribed, resolveTranscription, outputInputField, pendingMic,
                 nSessions, silenceDetectionInterval, isSilent, silenceTimer,
                 submission, isOutputFieldAvailable>>

\* ---- #startRecording after getUserMedia resolved (139-199), then 116-121

\* the recorders' states when 'recordingStarted' is emitted (144): start() is at 199
StatesAtEmit(s) == recState

\* the recorders' states when the start step completes
StatesAfterStart(s) == [recState EXCEPT ![s] = "recording"]

MicGranted(rt) ==
  /\ pendingMic[rt] > 0
  /\ LET s == nSessions + 1 IN
     /\ nSessions' = s
     /\ pendingMic' = [pendingMic EXCEPT ![rt] = @ - 1]
     /\ recorder' = s
     /\ events' = Emit(events, s, "recordingStarted")
     /\ silenceDetectionInterval' = [silenceDetectionInterval EXCEPT ![s] = TRUE]
     /\ isSilent' = [isSilent EXCEPT ![s] = FALSE]
     /\ silenceTimer' = [silenceTimer EXCEPT ![s] = NoTimer]
     /\ recState' = StatesAfterStart(s)
     /\ audioChunks' = [audioChunks EXCEPT ![s] = <<>>]
     /\ promiseState' = IF rt THEN [promiseState EXCEPT ![s] = "pending"] ELSE promiseState
     /\ resolveTranscription' = IF rt THEN s ELSE resolveTranscription
     /\ obs' = [obs EXCEPT !.startedWhile[s] = isRecordingIn(s, StatesAtEmit(s)),
                           !.afterStart[s] = isRecordingIn(s, StatesAfterStart(s))]
  /\ UNCHANGED <<endpoint, language, formData, request>>
  /\ UNCHANGED <<returnText, textTranscribed, outputInputField, onstop, submission,
                 isOutputFieldAvailable, promiseValue, strayStopped>>

\* 122-124 without the throw: the call resolves with undefined
DeniedSwallowed == "resolved"

\* the rejection of getUserMedia is rethrown at 202 and wrapped into an Error at 123
DeniedOutcome == "rejected"

\* getUserMedia rejected: the await of 138 throws, 139-199 are skipped
MicDenied(rt) ==
  /\ pendingMic[rt] > 0
  /\ pendingMic' = [pendingMic EXCEPT ![rt] = @ - 1]
  /\ obs' = [obs EXCEPT !.denied = DeniedOutcome]
  /\ UNCHANGED <<endpoint, language, formData, audioChunks, request>>
  /\ UNCHANGED <<recorder, returnText, textTranscribed, resolveTranscription, outputInputField,
                 nSessions, recState, onstop, silenceDetectionInterval, isSilent,
                 silenceTimer, submission, isOutputFieldAvailable, promiseState, promiseValue,
                 events, strayStopped>>

\* ---- the silence detector (162-185)

\* 168: the check reads quiet
BelowThreshold(average) == average < SilenceThreshold

\* 168-181: one run of checkForSilence on the closure variables of its session
checkForSilence(silent, timer, average) ==
  IF BelowThreshold(average)
  THEN IF ~silent
       THEN [isSilent |-> TRUE, silenceTimer |-> SilenceDelay]
       ELSE [isSilent |-> silent, silenceTimer |-> timer]
  ELSE [isSilent |-> FALSE, silenceTimer |-> NoTimer]

\* a pending timeout, 100 ms later
Elapse(timer) == IF timer > 0 THEN timer - CheckPeriod ELSE timer

\* 185: 100 ms pass.  Every pending timeout is 100 ms closer and every active interval
\* runs its callback, reading the level average[s].  Tasks that are already due run before
\* more time passes: a timeout that has run out (SilenceTimerFires) and a stop event that
\* stop() has queued (OnStop).
Tick(average) ==
  /\ \A s \in Sessions : silenceTimer[s] # 0 /\ ~onstop[s]
  /\ \E s \in Sessions : silenceDetectionInterval[s] \/ silenceTimer[s] > 0
  /\ \A s \in Sessions : ~silenceDetectionInterval[s] => average[s] = SilenceThreshold
  /\ LET after == [s \in Sessions |->
                     IF silenceDetectionInterval[s]
                     THEN checkForSilence(isSilent[s], Elapse(silenceTimer[s]), average[s])
                     ELSE [isSilent |-> isSilent[s], silenceTimer |-> Elapse(silenceTimer[s])]]
     IN /\ isSilent' = [s \in Sessions |-> after[s].isSilent]
        /\ silenceTimer' = [s \in Sessions |-> after[s].silenceTimer]
  /\ UNCHANGED <<endpoint, language, formData, audioChunks, request>>
  /\ UNCHANGED <<recorder, returnText, textTranscribed, resolveTranscription, outputInputField,
                 pendingMic, nSessions, recState, onstop, silenceDetectionInterval,
                 submission, isOutputFieldAvailable, promiseState, promiseValue, events,
                 strayStopped, obs>>

\* 172-174: the timeout of session s expires and calls this.#stopRecording()
SilenceTimerFires(s) ==
  /\ silenceTimer[s] = 0
  /\ silenceTimer' = [silenceTimer EXCEPT ![s] = NoTimer]
  /\ stopRecording(returnText,
                   [obs EXCEPT !.expired[s] = TRUE,
                               !.autoStopped[s] = IF CanStop THEN recorder ELSE 0])
  /\ UNCHANGED <<endpoint, language, formData, audioChunks, request>>
  /\ UNCHANGED <<recorder, returnText, textTranscribed, resolveTranscription, outputInputField,
                 pendingMic, nSessions, silenceDetectionInterval, isSilent,
                 submission, isOutputFieldAvailable>>

\* ---- recorder.onstop (192-197), #processAudioBlob (249-260), transcribe up to the await (271-288)

\* 273-274 without the test of this.#returnText
OutputFieldPresent == outputInputField.present

\* 273-274
OutputFieldAvailable == ~returnText /\ outputInputField.present

\* 285-286
ShowLoading(field, avail) ==
  IF avail THEN [field EXCEPT !.value = LoadingText, !.disabled = TRUE] ELSE field

\* 188-190: the handler of dataavailable keeps the data unless it is empty
Pushed(chunks, s, size) == IF size > 0 THEN Append(chunks, Chunk(s)) ELSE chunks

\* 252-253 without 251: the file is appended to the form data of the last submission
AppendedFormData(audioBlob) == [file |-> formData.file \o audioBlob, language |-> language]

\* 251-253
NewFormData(audioBlob) == [file |-> audioBlob, language |-> language]

\* 288: the URL of the POST
PostEndpoint == endpoint

\* stop() queued one task that fires dataavailable, with data of the given size, and then
\* stop on the recorder of session s
OnStop(s, size) ==
  /\ onstop[s]
  /\ formData' = NewFormData(Pushed(audioChunks[s], s, size))
  /\ request' = [session |-> s, endpoint |-> PostEndpoint, data |-> formData']
  /\ audioChunks' = [audioChunks EXCEPT ![s] = <<>>]
  /\ UNCHANGED <<endpoint, language>>
  /\ onstop' = [onstop EXCEPT ![s] = FALSE]
  /\ silenceDetectionInterval' = [silenceDetectionInterval EXCEPT ![s] = FALSE]
  /\ isOutputFieldAvailable' = [isOutputFieldAvailable EXCEPT ![s] = OutputFieldAvailable]
  /\ events' = Emit(events, s, "isLoading")
  /\ outputInputField' = ShowLoading(outputInputField, OutputFieldAvailable)
  /\ submission' = [submission EXCEPT ![s] = "inflight"]
  /\ obs' = [obs EXCEPT !.posts[s] = @ + 1, !.valueBefore[s] = outputInputField.value,
                        !.calledWith[s] = returnText]
  /\ UNCHANGED <<recorder, returnText, textTranscribed, resolveTranscription, pendingMic,
                 nSessions, recState, isSilent, silenceTimer, promiseState, promiseValue,
                 strayStopped>>

\* ---- transcribe after the await (288-316)

\* 292-294 with the test of 296 in place of the test of 292
WriteTextUnlessAvailable(field, s, avail) ==
  IF ~avail THEN [field EXCEPT !.value = Text(s)] ELSE field

\* 292-294: the text goes to the output field
WriteText(field, s, avail) == IF avail THEN [field EXCEPT !.value = Text(s)] ELSE field

\* 305-307
Enable(field, avail) == IF avail THEN [field EXCEPT !.disabled = FALSE] ELSE field

\* the catch block (308-316), entered with this.#returnText as it is now
Caught(s) ==
  IF returnText /\ resolveTranscription # 0
  THEN /\ promiseState' = Settle(promiseState, resolveTranscription, "rejected")
       /\ obs' = [obs EXCEPT !.errorTo[s] = "promise"]
  ELSE \* 314 throws into the stop event's handler, or 310 calls undefined: nobody awaits it
       /\ promiseState' = promiseState
       /\ obs' = [obs EXCEPT !.errorTo[s] = "unhandled"]

Response(s, outcome) ==
  /\ submission[s] = "inflight"
  /\ submission' = [submission EXCEPT ![s] = outcome]
  /\ LET avail == isOutputFieldAvailable[s] IN
     CASE outcome = "ok200" ->
            /\ textTranscribed' = Text(s)
            /\ IF avail
               THEN /\ outputInputField' = Enable(WriteText(outputInputField, s, avail), avail)
                    /\ events' = Emit(events, s, "isFinished")
                    /\ obs' = [obs EXCEPT !.textWrites[s] =
                                             IF outputInputField'.value = Text(s) THEN @ + 1 ELSE @]
                    /\ UNCHANGED <<promiseState, promiseValue>>
               ELSE IF resolveTranscription # 0
               THEN \* 297
                    /\ promiseState' = Settle(promiseState, resolveTranscription, "resolved")
                    /\ promiseValue' = SettleValue(promiseState, promiseValue,
                                                   resolveTranscription, Text(s))
                    /\ events' = Emit(events, s, "isFinished")
                    /\ obs' = obs
                    /\ UNCHANGED outputInputField
               ELSE \* 297 calls undefined: TypeError, caught at 308
                    /\ Caught(s)
                    /\ UNCHANGED <<outputInputField, events, promiseValue>>
       [] outcome = "other2xx" ->
            \* axios resolves, 290 is false
            /\ outputInputField' = Enable(outputInputField, avail)
            /\ events' = Emit(events, s, "isFinished")
            /\ obs' = obs
            /\ UNCHANGED <<textTranscribed, promiseState, promiseValue>>
       [] outcome = "failed" ->
            \* axios rejects: a network failure or a status outside 2xx
            /\ Caught(s)
            /\ UNCHANGED <<textTranscribed, outputInputField, events, promiseValue>>
  /\ UNCHANGED <<endpoint, language, formData, audioChunks, request>>
  /\ UNCHANGED <<recorder, returnText, resolveTranscription, pendingMic, nSessions, recState,
                 onstop, silenceDetectionInterval, isSilent, silenceTimer,
                 isOutputFieldAvailable, strayStopped>>

\* ---- specifications

\* every use of an instance with or without an output field, constructed with the default
\* language and endpoint: any returnText argument on every call
Next ==
  \/ \E rt \in BOOLEAN : CallStart(rt)
  \/ \E rt \in BOOLEAN : CallStop(rt)
  \/ \E rt \in BOOLEAN : MicGranted(rt)
  \/ \E rt \in BOOLEAN : MicDenied(rt)
  \/ \E average \in [Sessions -> Levels] : Tick(average)
  \/ \E s \in Sessions : SilenceTimerFires(s)
  \/ \E s \in Sessions, size \in ChunkSizes : OnStop(s, size)
  \/ \E s \in Sessions, outcome \in Outcomes : Response(s, outcome)

Spec == Init /\ [][Next]_vars

\* the tasks that are not calls
Tasks ==
  \/ \E average \in [Sessions -> Levels] : Tick(average)
  \/ \E s \in Sessions : SilenceTimerFires(s)
  \/ \E s \in Sessions, size \in ChunkSizes : OnStop(s, size)
  \/ \E s \in Sessions, outcome \in Outcomes : Response(s, outcome)

\* promise mode (README, Using Custom Output): new VoiceInput(), every call passes true
InitPromise == Init /\ ~outputInputField.present

NextPromise ==
  \/ CallStart(TRUE)
  \/ CallStop(TRUE)
  \/ MicGranted(TRUE)
  \/ MicDenied(TRUE)
  \/ Tasks

SpecPromise == InitPromise /\ [][NextPromise]_vars

\* output-field mode (README, Simple Example): new VoiceInput(element), calls without argument
InitOutputField == Init /\ outputInputField.present

NextOutputField ==
  \/ CallStart(FALSE)
  \/ CallStop(FALSE)
  \/ MicGranted(FALSE)
  \/ MicDenied(FALSE)
  \/ Tasks

SpecOutputField == InitOutputField /\ [][NextOutputField]_vars

\* what the event loop and the network guarantee: a queued stop event is dispatched, a
\* timeout that has run out is called, time passes, and a request that was sent ends (with
\* a response or with a failure).  Nothing obliges the user to call or to answer the
\* permission prompt.
Fairness ==
  /\ WF_vars(\E average \in [Sessions -> Levels] : Tick(average))
  /\ \A s \in Sessions :
       /\ WF_vars(SilenceTimerFires(s))
       /\ WF_vars(\E size \in ChunkSizes : OnStop(s, size))
       /\ WF_vars(\E outcome \in Outcomes : Response(s, outcome))

SpecFair == Spec /\ Fairness

\* what is submitted: an instance constructed with any arguments, calls without argument
SpecSubmission == InitAnyArguments /\ [][NextOutputField]_vars

SpecOutputFieldFair == SpecOutputField /\ Fairness

\* ---- properties

Created == 1..nSessions

Lifecycle == <<"recordingStarted", "recordingStopped", "isLoading", "isFinished">>

IsPrefix(a, b) == Len(a) <= Len(b) /\ a = SubSeq(b, 1, Len(a))

Failed(s) == submission[s] \in {"other2xx", "failed"}

RECURSIVE Count(_, _)
Count(seq, name) ==
  IF seq = <<>> THEN 0
  ELSE (IF Head(seq) = name THEN 1 ELSE 0) + Count(Tail(seq), name)

RECURSIVE Total(_, _)
Total(name, n) == IF n = 0 THEN 0 ELSE Count(events[n], name) + Total(name, n - 1)

Pending == pendingMic[TRUE] + pendingMic[FALSE]

Emitted(s, name) == \E i \in 1..Len(events[s]) : events[s][i] = name

\* C1: a session that was stopped, by a call, by the expiry of a silence timer or by both,
\* gets exactly one POST: none while it records, one once its stop event has run (the stop
\* event is queued by the one stop() of the session), never two.
C1_OnePostPerStoppedSession ==
  \A s \in Sessions :
    /\ obs.posts[s] <= 1
    /\ (s \in Created /\ recState[s] = "inactive")
         => obs.posts[s] + (IF onstop[s] THEN 1 ELSE 0) = 1
    /\ (s \notin Created \/ recState[s] = "recording") => (obs.posts[s] = 0 /\ ~onstop[s])

\* a session stopped by a call whose silence timer expired afterwards, with its one POST
C1_Witness ==
  \E s \in Created :
    /\ obs.posts[s] = 1
    /\ obs.expired[s]
    /\ obs.autoStopped[s] = 0
    /\ obs.idleStop.outcome # "none"

\* C2: at most one recorder with its silence-check loop is active at a time.
C2_SingleSession ==
  Cardinality({s \in Sessions : recState[s] = "recording" /\ silenceDetectionInterval[s]}) <= 1

\* C3: in promise mode the promise returned by the call that started session s is resolved
\* with the text of the 200 response to s's audio and with nothing else.
C3_PromiseGetsOwnText ==
  \A s \in Sessions : promiseState[s] = "resolved" => promiseValue[s] = Text(s)

\* C4: in output-field mode a session's 200 response assigns its text to the output field's
\* value exactly once, and no other response of the session assigns a text.
C4_TextWrittenOnce ==
  \A s \in Sessions :
    /\ submission[s] = "ok200" => obs.textWrites[s] = 1
    /\ submission[s] # "ok200" => obs.textWrites[s] = 0

\* a session of output-field mode whose 200 response wrote its text
C4_Witness ==
  \E s \in Created :
    /\ submission[s] = "ok200"
    /\ isOutputFieldAvailable[s]
    /\ obs.textWrites[s] = 1
    /\ events[s] = Lifecycle

\* C5: in output-field mode, when the submission of a session fails (the request fails or
\* the status is not 200), the output field's value after the attempt is what it was when
\* the attempt began.
C5_FailureKeepsValue ==
  [][\A s \in Sessions :
       (submission[s] = "inflight" /\ Failed(s)')
         => outputInputField'.value = obs.valueBefore[s]]_vars

\* C6: a submission that fails (the request fails or the status is not 200) reaches the
\* caller as an error: the promise of the session is rejected when the session has one,
\* otherwise the error is thrown to a caller of startOrStopTranscription.
C6_FailureSurfaces ==
  \A s \in Sessions :
    Failed(s) => IF promiseState[s] # "none"
                 THEN promiseState[s] = "rejected"
                 ELSE obs.errorTo[s] = "caller"

\* C7: #stopRecording running with nothing recording resolves the promise with null and
\* raises no error when returnText is true, and raises an error when returnText is false.
C7_IdleStop ==
  obs.idleStop.outcome # "none"
    => obs.idleStop.outcome = (IF obs.idleStop.returnText THEN "resolved" ELSE "error")

\* C8: once the start step of a session completes the recorder is recording (the next call
\* takes the stop branch), and it is already recording when 'recordingStarted' is emitted.
C8_RecordingWhenStarted ==
  \A s \in Created : obs.afterStart[s] /\ obs.startedWhile[s]

\* C9: a session whose checks stayed quiet for the 1500 ms of its silence countdown is
\* stopped when the countdown runs out.
C9_QuietSessionStopped ==
  \A s \in Sessions : obs.expired[s] => recState[s] = "inactive"

\* C10: the notifications of a session are emitted in the order recordingStarted,
\* recordingStopped, isLoading, isFinished; in particular no isLoading before the
\* session's recordingStopped.
C10_LifecycleOrder ==
  \A s \in Sessions : IsPrefix(events[s], Lifecycle)

\* a session that emitted all four
C10_Witness ==
  \E s \in Created : events[s] = Lifecycle /\ recState[s] = "inactive"

\* C11: every 'isLoading' of a submission is eventually followed by the 'isFinished' of the
\* same submission, whatever the outcome of the request.
C11_LoadingThenFinished ==
  \A s \in Sessions : Emitted(s, "isLoading") ~> Emitted(s, "isFinished")

\* C12: a call that stops a recording completes only after the response to that
\* recording's submission has arrived, and resolves with the text transcribed from that
\* recording.
C12_StopCallReturnsOwnText ==
  \A s \in Sessions :
    /\ obs.returnedWhile[s] # "nocall" => obs.returnedWhile[s] \in Outcomes
    /\ (obs.returnedWhile[s] # "nocall" /\ submission[s] = "ok200") => obs.returned[s] = Text(s)

\* C13: when microphone access is denied the start call rejects with an Error, no
\* 'recordingStarted' is emitted, no recorder, interval or timer is created, no submission
\* is made, and an idle instance stays idle, so that the next call attempts to start again.
C13_DeniedStartChangesNothing ==
  [][(Pending' < Pending /\ nSessions' = nSessions)
       => /\ obs'.denied = "rejected"
          /\ events' = events /\ strayStopped' = strayStopped
          /\ recorder' = recorder /\ recState' = recState /\ onstop' = onstop
          /\ silenceDetectionInterval' = silenceDetectionInterval
          /\ silenceTimer' = silenceTimer /\ isSilent' = isSilent
          /\ submission' = submission /\ obs'.posts = obs.posts
          /\ (~isRecording => ~isRecording')]_vars

\* the first call was denied, nothing was created, and the next call is starting again
C13_Witness ==
  /\ obs.denied = "rejected"
  /\ nSessions = 0 /\ recorder = 0
  /\ \A s \in Sessions : events[s] = <<>> /\ silenceTimer[s] = NoTimer /\ submission[s] = "none"
  /\ Pending = 1

C15_SubmissionCarriesOwnAudio ==
  [][/\ endpoint' = endpoint
     /\ language' = language
     /\ \A s \in Sessions :
          (submission[s] # "inflight" /\ submission'[s] = "inflight")
            => /\ request'.session = s
               /\ request'.endpoint = endpoint
               /\ request'.data.language = language
               /\ \A i \in 1..Len(request'.data.file) : request'.data.file[i] = Chunk(s)]_vars

\* an instance constructed with a language and an endpoint of its own, after two
\* submissions with audio: the second request carries the second session's chunk
C15_Witness ==
  /\ endpoint # DefaultEndpoint /\ language # DefaultLanguage
  /\ obs.posts = [s \in Sessions |-> 1]
  /\ request = [session |-> MaxSessions, endpoint |-> endpoint,
                data |-> [file |-> <<Chunk(MaxSessions)>>, language |-> language]]

\* C16: the expiry of a session's silence countdown stops that session and nothing else:
\* never the recorder of another session, never the stop-while-idle path.
C16_CountdownStopsOwnSession ==
  \A s \in Sessions : obs.expired[s] => obs.autoStopped[s] = s

\* C17: in output-field mode, whenever the field is disabled it is eventually enabled
\* again and not showing 'Loading...', whatever the outcome of the request.
C17_FieldEnabledAgain ==
  outputInputField.disabled
    ~> (~outputInputField.disabled /\ outputInputField.value # LoadingText)

\* C18: 'recordingStopped' is never emitted more often than 'recordingStarted', and it is
\* emitted exactly once for each session that was stopped: not for a session still
\* recording, not twice, and not when nothing was recording.
C18_StoppedOncePerSession ==
  /\ Total("recordingStopped", MaxSessions) + strayStopped
       <= Total("recordingStarted", MaxSessions)
  /\ strayStopped = 0
  /\ \A s \in Sessions :
       Count(events[s], "recordingStopped")
         = (IF s \in Created /\ recState[s] = "inactive" THEN 1 ELSE 0)

====
